---- MODULE Spec2Model ----
(***************************************************************************)
(* video-chopper: the identifier resolver of the worker (extractVideoId)   *)
(* and the format selection of the React client (getBestFormat and the     *)
(* formats list).  Strings are sequences of one-character strings, so that *)
(* URL parsing and regular-expression matching are computed character by   *)
(* character as the JavaScript does.                                       *)
(***************************************************************************)
EXTENDS Integers, Sequences, FiniteSets, TLC

VARIABLES
    url,        \* worker: the argument of extractVideoId
    result,     \* worker: what extractVideoId did with it
    formats,    \* client: videoInfo.formats
    best,       \* client: what getBestFormat returned
    shown,      \* client: the items rendered in the formats list
    total,      \* client: the count of the "Showing 10 of N" note
    mimeType,       \* worker: format.mime_type of one format
    container,      \* worker: the container derived from it
    contentLength,  \* client: format.contentLength of one format
    humanSize,      \* client: what formatBytes returned for it
    sliceEnd,       \* client: the second argument of slice
    listed,         \* client: the list cut with that limit
    request,        \* worker: a POST request and its body
    pc,             \* worker: where the handler of the request stands
    handlerVideoId, \* worker: const videoId of the handler
    calls,          \* worker: the calls made to the provider, in order
    info,           \* worker: const info, what yt.getInfo resolved to
    response,       \* worker: the response of the handler
    appUrl,         \* client: const [url, setUrl]
    loading,        \* client: const [loading, setLoading]
    videoInfo,      \* client: const [videoInfo, setVideoInfo]
    error,          \* client: const [error, setError]
    inFlight,       \* client: the requests sent and not yet settled
    yt,             \* caching worker: let yt, 0 for undefined
    created,        \* caching worker: how often Innertube.create was called
    stage,          \* caching worker: where each request stands
    instance        \* caching worker: what getInnertube gave each request

resolverVars == <<url, result>>
selectorVars == <<formats, best, shown, total>>
fieldVars == <<mimeType, container, contentLength, humanSize>>
limitVars == <<sliceEnd, listed>>
workerVars == <<request, pc, handlerVideoId, calls, info, response>>
appVars == <<appUrl, loading, videoInfo, error, inFlight>>
cacheVars == <<yt, created, stage, instance>>
vars == <<url, result, formats, best, shown, total,
          mimeType, container, contentLength, humanSize,
          sliceEnd, listed, request, pc, handlerVideoId, calls, info, response,
          appUrl, loading, videoInfo, error, inFlight,
          yt, created, stage, instance>>

----------------------------------------------------------------------------
(* Characters and strings *)

Min(S) == CHOOSE x \in S : \A y \in S : x <= y
Max(S) == CHOOSE x \in S : \A y \in S : y <= x

Digit == {"0", "1", "2", "3", "4", "5", "6", "7", "8", "9"}
UpperAlpha == {"A", "B", "C", "D", "E", "F", "G", "H", "I", "J", "K", "L", "M", "N", "O", "P", "Q", "R", "S", "T", "U", "V", "W", "X", "Y", "Z"}
LowerAlpha == {"a", "b", "c", "d", "e", "f", "g", "h", "i", "j", "k", "l", "m", "n", "o", "p", "q", "r", "s", "t", "u", "v", "w", "x", "y", "z"}
Alpha == UpperAlpha \cup LowerAlpha

\* The character class [a-zA-Z0-9_-] of the last pattern.
IdChars == Alpha \cup Digit \cup {"_", "-"}

\* The punctuation the inputs are drawn from, besides IdChars.  "%", "+",
\* "@", "\\", "[" are left out: the parser below does not model percent
\* decoding, credentials, backslashes or IPv6 hosts.
Punct == {":", "/", "?", "=", "&", "#", ".", " ", "\n"}
Alphabet == IdChars \cup Punct

UpperSeq == <<"A", "B", "C", "D", "E", "F", "G", "H", "I", "J", "K", "L", "M", "N", "O", "P", "Q", "R", "S", "T", "U", "V", "W", "X", "Y", "Z">>
LowerSeq == <<"a", "b", "c", "d", "e", "f", "g", "h", "i", "j", "k", "l", "m", "n", "o", "p", "q", "r", "s", "t", "u", "v", "w", "x", "y", "z">>

\* String.prototype.toLowerCase on one ASCII character.
LowerChar(c) ==
    IF c \in UpperAlpha
    THEN LowerSeq[CHOOSE i \in 1..26 : UpperSeq[i] = c]
    ELSE c

ToLower(s) == [i \in 1..Len(s) |-> LowerChar(s[i])]

\* s.slice(from) with a 0-based, non-negative from.
SliceFrom(s, from) == SubSeq(s, from + 1, Len(s))

\* The 1-based index of the first character of s at or after `from` that
\* is in C; Len(s) + 1 when there is none.
FirstIn(s, C, from) ==
    LET I == {i \in from..Len(s) : s[i] \in C}
    IN  IF I = {} THEN Len(s) + 1 ELSE Min(I)

StartsWith(s, lit, pos) ==
    /\ pos + Len(lit) - 1 <= Len(s)
    /\ \A i \in 1..Len(lit) : s[pos + i - 1] = lit[i]

\* String.prototype.includes
Includes(s, lit) == \E i \in 1..(Len(s) + 1) : StartsWith(s, lit, i)

\* String.prototype.split on a one-character separator.
RECURSIVE Split(_, _)
Split(s, sep) ==
    LET i == FirstIn(s, {sep}, 1)
    IN  IF i > Len(s)
        THEN <<s>>
        ELSE <<SubSeq(s, 1, i - 1)>> \o Split(SubSeq(s, i + 1, Len(s)), sep)

----------------------------------------------------------------------------
(* new URL(url): the WHATWG basic URL parser without a base URL, for      *)
(* inputs over Alphabet whose path has no "." or ".." segment and whose   *)
(* host does not end in a number.                                          *)

C0OrSpace == {" ", "\n", "\t", "\r"}
TabOrNewline == {"\t", "\n", "\r"}
SchemeChars == Alpha \cup Digit \cup {"+", "-", "."}
SpecialSchemes == {<<"h", "t", "t", "p">>, <<"h", "t", "t", "p", "s">>, <<"f", "t", "p">>, <<"w", "s">>, <<"w", "s", "s">>}
ForbiddenHostChars == {" ", "#", "/", ":", "?", "<", ">", "@", "[", "]", "^", "|"}

URLFailure == [ok |-> FALSE, hostname |-> <<>>, pathname |-> <<>>, query |-> <<>>]

\* Leading and trailing C0 control or space removed, then every tab and
\* newline removed.
URLPreprocess(s) ==
    LET I == {i \in 1..Len(s) : s[i] \notin C0OrSpace}
        t == IF I = {} THEN <<>> ELSE SubSeq(s, Min(I), Max(I))
    IN  SelectSeq(t, LAMBDA c : c \notin TabOrNewline)

\* The path state percent-encodes a space.
RECURSIVE EncodePath(_)
EncodePath(s) ==
    IF s = <<>> THEN <<>>
    ELSE (IF Head(s) = " " THEN <<"%", "2", "0">> ELSE <<Head(s)>>) \o EncodePath(Tail(s))

\* Path and query of the text that follows the authority.
PathAndQuery(r, special) ==
    LET pathEnd == FirstIn(r, {"?", "#"}, 1)
        rawPath == SubSeq(r, 1, pathEnd - 1)
        hasQuery == pathEnd <= Len(r) /\ r[pathEnd] = "?"
        queryEnd == FirstIn(r, {"#"}, pathEnd + 1)
    IN  [pathname |-> IF rawPath = <<>> /\ special THEN <<"/">>
                      ELSE EncodePath(rawPath),
         query |-> IF hasQuery THEN SubSeq(r, pathEnd + 1, queryEnd - 1) ELSE <<>>]

\* Authority, then path and query; r is the text after the slashes.
ParseAuthority(r, special) ==
    LET authEnd == FirstIn(r, {"/", "?", "#"}, 1)
        auth == SubSeq(r, 1, authEnd - 1)
        colon == FirstIn(auth, {":"}, 1)
        host == SubSeq(auth, 1, colon - 1)
        port == SubSeq(auth, colon + 1, Len(auth))
        pq == PathAndQuery(SubSeq(r, authEnd, Len(r)), special)
    IN  IF \/ (special /\ host = <<>>)
           \/ \E i \in 1..Len(host) : host[i] \in ForbiddenHostChars
           \/ \E i \in 1..Len(port) : port[i] \notin Digit
        THEN URLFailure
        ELSE [ok |-> TRUE,
              hostname |-> IF special THEN ToLower(host) ELSE host,
              pathname |-> pq.pathname,
              query |-> pq.query]

URLParse(input) ==
    LET s == URLPreprocess(input)
        colon == FirstIn(s, {":"}, 1)
    IN  IF \/ s = <<>>
           \/ s[1] \notin Alpha
           \/ colon > Len(s)
           \/ \E i \in 2..(colon - 1) : s[i] \notin SchemeChars
        THEN URLFailure     \* no scheme and no base: TypeError
        ELSE
          LET scheme == ToLower(SubSeq(s, 1, colon - 1))
              rest == SubSeq(s, colon + 1, Len(s))
          IN  IF scheme \in SpecialSchemes
              THEN \* special authority (ignore) slashes state
                   LET k == {i \in 1..Len(rest) : rest[i] # "/"}
                   IN  IF k = {} THEN URLFailure
                       ELSE ParseAuthority(SubSeq(rest, Min(k), Len(rest)), TRUE)
              ELSE IF StartsWith(rest, <<"/", "/">>, 1)
              THEN ParseAuthority(SubSeq(rest, 3, Len(rest)), FALSE)
              ELSE \* a path without authority, or an opaque path
                   LET pq == PathAndQuery(rest, FALSE)
                   IN  [ok |-> TRUE, hostname |-> <<>>,
                        pathname |-> pq.pathname, query |-> pq.query]

\* searchParams.getAll(name).pop(): the last pair instead of the first
SearchParamsGetLast(query, name) ==
    LET pieces == SelectSeq(Split(query, "&"), LAMBDA p : p # <<>>)
        NameOf(p) == SubSeq(p, 1, FirstIn(p, {"="}, 1) - 1)
        ValueOf(p) == SubSeq(p, FirstIn(p, {"="}, 1) + 1, Len(p))
        I == {i \in 1..Len(pieces) : NameOf(pieces[i]) = name}
    IN  IF I = {} THEN [present |-> FALSE, value |-> <<>>]
        ELSE [present |-> TRUE, value |-> ValueOf(pieces[Max(I)])]

\* urlObj.searchParams.get(name): the value of the first pair of the query
\* whose name is `name`; present is FALSE for null.
SearchParamsGet(query, name) ==
    LET pieces == SelectSeq(Split(query, "&"), LAMBDA p : p # <<>>)
        NameOf(p) == SubSeq(p, 1, FirstIn(p, {"="}, 1) - 1)
        ValueOf(p) == SubSeq(p, FirstIn(p, {"="}, 1) + 1, Len(p))
        I == {i \in 1..Len(pieces) : NameOf(pieces[i]) = name}
    IN  IF I = {} THEN [present |-> FALSE, value |-> <<>>]
        ELSE [present |-> TRUE, value |-> ValueOf(pieces[Min(I)])]

----------------------------------------------------------------------------
(* String.prototype.match with a non-global regular expression: the       *)
(* leftmost match, alternatives tried in the backtracking order.          *)

Lit(x) == [k |-> "lit", lit |-> x, sub |-> <<>>, set |-> {}, n |-> 0]
Opt(p) == [k |-> "opt", lit |-> <<>>, sub |-> p, set |-> {}, n |-> 0]
\* ([^...]+): one or more characters outside `set`, greedy, captured
CaptureNot(C) == [k |-> "capnot", lit |-> <<>>, sub |-> <<>>, set |-> C, n |-> 1]
\* ([...]{n}): exactly n characters of `set`, captured
CaptureN(C, n) == [k |-> "capn", lit |-> <<>>, sub |-> <<>>, set |-> C, n |-> n]
Bol == [k |-> "bol", lit |-> <<>>, sub |-> <<>>, set |-> {}, n |-> 0]
Eol == [k |-> "eol", lit |-> <<>>, sub |-> <<>>, set |-> {}, n |-> 0]

NoMatch == [ok |-> FALSE, cap |-> <<>>]

RECURSIVE MatchAt(_, _, _)
MatchAt(pat, s, pos) ==
    IF pat = <<>> THEN [ok |-> TRUE, cap |-> <<>>]
    ELSE
      LET e == Head(pat)
          rest == Tail(pat)
      IN  CASE e.k = "lit" ->
                 IF StartsWith(s, e.lit, pos)
                 THEN MatchAt(rest, s, pos + Len(e.lit))
                 ELSE NoMatch
            [] e.k = "opt" ->
                 LET r == MatchAt(e.sub \o rest, s, pos)
                 IN  IF r.ok THEN r ELSE MatchAt(rest, s, pos)
            [] e.k = "bol" ->
                 IF pos = 1 THEN MatchAt(rest, s, pos) ELSE NoMatch
            [] e.k = "eol" ->
                 IF pos = Len(s) + 1 THEN MatchAt(rest, s, pos) ELSE NoMatch
            [] e.k = "capnot" ->
                 LET run == FirstIn(s, e.set, pos) - pos
                     K == {j \in 1..run : MatchAt(rest, s, pos + j).ok}
                 IN  IF K = {} THEN NoMatch
                     ELSE [ok |-> TRUE, cap |-> SubSeq(s, pos, pos + Max(K) - 1)]
            [] e.k = "capn" ->
                 IF /\ pos + e.n - 1 <= Len(s)
                    /\ \A i \in pos..(pos + e.n - 1) : s[i] \in e.set
                    /\ MatchAt(rest, s, pos + e.n).ok
                 THEN [ok |-> TRUE, cap |-> SubSeq(s, pos, pos + e.n - 1)]
                 ELSE NoMatch

\* url.match(pattern): match[1] of the leftmost match, ok = FALSE for null.
StringMatch(s, pat) ==
    LET P == {p \in 1..(Len(s) + 1) : MatchAt(pat, s, p).ok}
    IN  IF P = {} THEN NoMatch ELSE MatchAt(pat, s, Min(P))

----------------------------------------------------------------------------
(* extractVideoId *)

IdLen == 11

YoutuBe == <<"y", "o", "u", "t", "u", ".", "b", "e">>
YoutubeCom == <<"y", "o", "u", "t", "u", "b", "e", ".", "c", "o", "m">>
WatchPath == <<"/", "w", "a", "t", "c", "h">>

Protocol == Opt(<<Lit(<<"h", "t", "t", "p">>), Opt(<<Lit(<<"s">>)>>), Lit(<<":", "/", "/">>)>>)
IdStop == {"&", "\n", "?", "#"}

\* /(?:https?:\/\/)?(?:www\.)?youtube\.com\/watch\?v=([^&\n?#]+)/
WatchPattern ==
    <<Protocol, Opt(<<Lit(<<"w", "w", "w", ".">>)>>), Lit(<<"y", "o", "u", "t", "u", "b", "e", ".", "c", "o", "m", "/", "w", "a", "t", "c", "h", "?", "v", "=">>), CaptureNot(IdStop)>>

\* /(?:https?:\/\/)?youtu\.be\/([^&\n?#]+)/
ShortPattern == <<Protocol, Lit(<<"y", "o", "u", "t", "u", ".", "b", "e", "/">>), CaptureNot(IdStop)>>

\* /(?:https?:\/\/)?(?:m\.)?youtube\.com\/watch\?v=([^&\n?#]+)/
MobilePattern ==
    <<Protocol, Opt(<<Lit(<<"m", ".">>)>>), Lit(<<"y", "o", "u", "t", "u", "b", "e", ".", "c", "o", "m", "/", "w", "a", "t", "c", "h", "?", "v", "=">>), CaptureNot(IdStop)>>

\* /([a-zA-Z0-9_-]{11})/: the last pattern without its anchors
UnanchoredBare == <<CaptureN(IdChars, IdLen)>>

\* /^([a-zA-Z0-9_-]{11})$/
BarePattern == <<Bol, CaptureN(IdChars, IdLen), Eol>>

patterns == <<WatchPattern, ShortPattern, MobilePattern, BarePattern>>

Returned(id) == [kind |-> "returned", id |-> id]
\* throw new Error('Invalid YouTube URL or video ID')
InvalidReference == [kind |-> "thrown", id |-> <<>>]
FallThrough == [kind |-> "fallthrough", id |-> <<>>]
NotCalled == [kind |-> "notcalled", id |-> <<>>]

\* JavaScript truthiness of a string
Truthy(s) == s # <<>>

\* urlObj.pathname taken whole
ShortLinkIdUnsliced(u) == u.pathname

\* urlObj.pathname.slice(1)
ShortLinkId(u) == SliceFrom(u.pathname, 1)

\* urlObj.searchParams.get('v')
WatchId(u) == SearchParamsGet(u.query, <<"v">>)

\* The try block: what the structured rules return, or FallThrough when
\* new URL throws or neither rule returns.
StructuredRule(input) ==
    LET urlObj == URLParse(input)
    IN  IF ~urlObj.ok THEN FallThrough
        ELSE IF urlObj.hostname = YoutuBe
        THEN Returned(ShortLinkId(urlObj))
        ELSE IF Includes(urlObj.hostname, YoutubeCom) /\ urlObj.pathname = WatchPath
        THEN LET videoId == WatchId(urlObj)
             IN  IF videoId.present /\ Truthy(videoId.value)
                 THEN Returned(videoId.value)
                 ELSE FallThrough
        ELSE FallThrough

\* The loop over the patterns: match[1] of the first pattern that matches.
RECURSIVE TextualPatterns(_, _)
TextualPatterns(input, ps) ==
    IF ps = <<>> THEN FallThrough
    ELSE LET match == StringMatch(input, Head(ps))
         IN  IF match.ok /\ Truthy(match.cap)
             THEN Returned(match.cap)
             ELSE TextualPatterns(input, Tail(ps))

\* extractVideoId that hands the input back when nothing matches
extractVideoIdLenient(input) ==
    LET s == StructuredRule(input)
        t == TextualPatterns(input, patterns)
    IN  IF s.kind = "returned" THEN s
        ELSE IF t.kind = "returned" THEN t
        ELSE Returned(input)

\* extractVideoId that throws as soon as the input parsed as a URL and no
\* structured rule returned
extractVideoIdFailEarly(input) ==
    LET s == StructuredRule(input)
        t == TextualPatterns(input, patterns)
    IN  IF s.kind = "returned" THEN s
        ELSE IF URLParse(input).ok THEN InvalidReference
        ELSE IF t.kind = "returned" THEN t
        ELSE InvalidReference

extractVideoId(input) ==
    LET s == StructuredRule(input)
        t == TextualPatterns(input, patterns)
    IN  IF s.kind = "returned" THEN s
        ELSE IF t.kind = "returned" THEN t
        ELSE InvalidReference

----------------------------------------------------------------------------
(* The inputs of the resolver: a prefix, an identifier and a tail. *)

MaxExtras == 2

WatchPrefix == <<"h", "t", "t", "p", "s", ":", "/", "/", "w", "w", "w", ".", "y", "o", "u", "t", "u", "b", "e", ".", "c", "o", "m", "/", "w", "a", "t", "c", "h", "?", "v", "=">>
ShortPrefix == <<"h", "t", "t", "p", "s", ":", "/", "/", "y", "o", "u", "t", "u", ".", "b", "e", "/">>

Prefixes ==
    { <<>>, WatchPrefix, ShortPrefix,
      <<"h", "t", "t", "p", ":", "/", "/", "y", "o", "u", "t", "u", "b", "e", ".", "c", "o", "m", "/", "w", "a", "t", "c", "h", "?", "v", "=">>,
      <<"h", "t", "t", "p", "s", ":", "/", "/", "m", ".", "y", "o", "u", "t", "u", "b", "e", ".", "c", "o", "m", "/", "w", "a", "t", "c", "h", "?", "v", "=">>,
      <<"h", "t", "t", "p", "s", ":", "/", "/", "w", "w", "w", ".", "y", "o", "u", "t", "u", "b", "e", ".", "c", "o", "m", "/", "w", "a", "t", "c", "h", "?", "l", "i", "s", "t", "=", "P", "L", "&", "v", "=">>,
      <<"h", "t", "t", "p", "s", ":", "/", "/", "w", "w", "w", ".", "y", "o", "u", "t", "u", "b", "e", ".", "c", "o", "m", "/", "e", "m", "b", "e", "d", "/">>,
      <<"h", "t", "t", "p", "s", ":", "/", "/", "m", "u", "s", "i", "c", ".", "y", "o", "u", "t", "u", "b", "e", ".", "c", "o", "m", "/", "w", "a", "t", "c", "h", "?", "f", "e", "a", "t", "u", "r", "e", "=", "s", "h", "a", "r", "e", "&", "v", "v", "=">>,
      <<"h", "t", "t", "p", "s", ":", "/", "/", "Y", "O", "U", "T", "U", ".", "B", "E", "/">>,
      <<"y", "o", "u", "t", "u", ".", "b", "e", "/">>,
      <<"w", "w", "w", ".", "y", "o", "u", "t", "u", "b", "e", ".", "c", "o", "m", "/", "w", "a", "t", "c", "h", "?", "v", "=">>,
      <<"m", ".", "y", "o", "u", "t", "u", "b", "e", ".", "c", "o", "m", "/", "w", "a", "t", "c", "h", "?", "v", "=">>,
      <<"v", "n", "d", ".", "y", "o", "u", "t", "u", "b", "e", ":", "/", "/", "y", "o", "u", "t", "u", ".", "b", "e", "/">>,
      <<"h", "t", "t", "p", "s", ":", "/", "/", "e", "x", "a", "m", "p", "l", "e", ".", "c", "o", "m", "/">>,
      <<"h", "t", "t", "p", "s", ":", "/", "/", "e", "x", "a", "m", "p", "l", "e", ".", "c", "o", "m", "/", "w", "a", "t", "c", "h", "?", "v", "=">>,
      <<"h", "t", "t", "p", "s", ":", "/", "/", "e", "x", "a", "m", "p", "l", "e", ".", "c", "o", "m", "/", "?", "u", "=", "h", "t", "t", "p", "s", ":", "/", "/", "y", "o", "u", "t", "u", ".", "b", "e", "/">>,
      <<"h", "t", "t", "p", "s", ":", "/", "/", "e", "x", "a", "m", "p", "l", "e", ".", "c", "o", "m", "/", "r", "/", "w", "w", "w", ".", "y", "o", "u", "t", "u", "b", "e", ".", "c", "o", "m", "/", "w", "a", "t", "c", "h", "?", "v", "=">> }

ValidIds ==
    { <<"d", "Q", "w", "4", "w", "9", "W", "g", "X", "c", "Q">>, <<"M", "h", "1", "h", "K", "t", "5", "k", "Q", "_", "4">>, <<"a", "-", "b", "_", "c", "0", "d", "1", "e", "2", "f">>, <<"-", "-", "-", "-", "-", "-", "-", "-", "-", "-", "-">>,
      <<"w", "a", "t", "c", "h", "_", "v", "_", "0", "0", "0">> }

Ids == ValidIds \cup { <<>>, <<"a", "b", "c">>, <<"d", "Q", "w", "4", "w", "9", "W", "g", "X", "c", "Q", "Q">>, <<"d", "Q", "w", "4", "w", "9", ".", "g", "X", "c", "Q">> }

QueryParams ==
    { <<"&", "l", "i", "s", "t", "=", "R", "D", "M", "h", "1", "h", "K", "t", "5", "k", "Q", "_", "4">>, <<"&", "s", "t", "a", "r", "t", "_", "r", "a", "d", "i", "o", "=", "1">>, <<"&", "v", "=", "z", "z", "z", "z", "z", "z", "z", "z", "z", "z", "z">>,
      <<"&", "f", "e", "a", "t", "u", "r", "e", "=", "y", "o", "u", "t", "u", ".", "b", "e">>, <<"&", "n", "e", "x", "t", "=", "h", "t", "t", "p", "s", ":", "/", "/", "y", "o", "u", "t", "u", ".", "b", "e", "/", "a", "b", "c">> }

\* Every sequence of at most n query parameters, as text.
RECURSIVE ParamSeqs(_)
ParamSeqs(n) ==
    IF n = 0 THEN {<<>>}
    ELSE LET S == ParamSeqs(n - 1)
         IN  S \cup {s \o p : s \in S, p \in QueryParams}

QueryExtras == ParamSeqs(MaxExtras)

Tails == QueryExtras \cup { <<"#", "t", "=", "1", "0">>, <<"?", "t", "=", "1", "0">>, <<"/", "e", "x", "t", "r", "a">>, <<"\n">>, <<" ">> }

Misc == { <<"h", "t", "t", "p", "s", ":", "/", "/">>, <<"y", "o", "u", "t", "u", "b", "e", ".", "c", "o", "m">>, <<"w", "a", "t", "c", "h", "?", "v", "=", "d", "Q", "w", "4", "w", "9", "W", "g", "X", "c", "Q">>,
          <<" ", "d", "Q", "w", "4", "w", "9", "W", "g", "X", "c", "Q">>, <<"a", "b", "c", "d", "e", ":", "f", "g", "h", "i", "j">>, <<"h", "t", "t", "p", "s", ":", "/", "/", "y", "o", "u", "t", "u", ".", "b", "e">> }

Inputs == {p \o x \o e : p \in Prefixes, x \in Ids, e \in Tails} \cup Misc

IsVideoIdentifier(s) == Len(s) = IdLen /\ \A i \in 1..Len(s) : s[i] \in IdChars

----------------------------------------------------------------------------
(* Specification of the resolver: extractVideoId applied to an input. *)

NotComputed == [kind |-> "notcomputed"]

SelectorIdle ==
    /\ formats = <<>>
    /\ best = NotComputed
    /\ shown = NotComputed
    /\ total = NotComputed

\* format.mime_type is undefined
NoMimeType == [present |-> FALSE, text |-> <<>>]

FieldsIdle ==
    /\ mimeType = NoMimeType
    /\ container = NotComputed
    /\ contentLength = <<>>
    /\ humanSize = NotComputed

LimitIdle ==
    /\ sliceEnd = 0
    /\ listed = NotComputed

\* No request has arrived.
NoRequest == [endpoint |-> "none", json |-> FALSE, url |-> NoMimeType]

NoInfo == [kind |-> "none"]

\* useState<VideoInfo | null>(null)
NoVideoInfo == [kind |-> "null"]

\* the client as it is mounted
AppIdle ==
    /\ appUrl = <<>>
    /\ loading = FALSE
    /\ videoInfo = NoVideoInfo
    /\ error = ""
    /\ inFlight = <<>>

\* the longest run of concurrent requests of one worker instance
MaxRequests == 3

\* a worker instance that no request has reached
CacheIdle ==
    /\ yt = 0
    /\ created = 0
    /\ stage = [r \in 1..MaxRequests |-> "absent"]
    /\ instance = [r \in 1..MaxRequests |-> 0]

WorkerIdle ==
    /\ request = NoRequest
    /\ pc = "idle"
    /\ handlerVideoId = <<>>
    /\ calls = <<>>
    /\ info = NoInfo
    /\ response = NotComputed

InitResolver ==
    /\ url \in Inputs
    /\ result = NotCalled
    /\ SelectorIdle
    /\ FieldsIdle
    /\ LimitIdle
    /\ WorkerIdle
    /\ AppIdle
    /\ CacheIdle

\* const videoId = extractVideoId(url)
Resolve ==
    /\ result = NotCalled
    /\ result' = extractVideoId(url)
    /\ UNCHANGED <<url, selectorVars, fieldVars, limitVars, workerVars, appVars, cacheVars>>

NextResolver == Resolve

SpecResolver == InitResolver /\ [][NextResolver]_vars

----------------------------------------------------------------------------
(* The formats of the client: getBestFormat and the formats list. *)

ListLimit == 10

MaxHeight == 2
MaxShort == 3
MaxLong == 15

\* A format whose height the worker did not report
Undefined == -1

Heights == {Undefined} \cup (0..MaxHeight)

\* f.hasVideo && f.hasAudio
IsCombined(f) == f.hasVideo /\ f.hasAudio

\* f.height || 0
HeightOrZero(f) == IF f.height = Undefined THEN 0 ELSE f.height

\* (a, b) => (a.height || 0) - (b.height || 0): the operands swapped
CompareAscending(a, b) == HeightOrZero(a) - HeightOrZero(b)

\* (a, b) => (b.height || 0) - (a.height || 0)
Compare(a, b) == HeightOrZero(b) - HeightOrZero(a)

\* Array.prototype.sort is stable: x, which came after every element of
\* `sorted` in the array, goes before the first element that compares
\* greater than it.
RECURSIVE InsertStable(_, _)
InsertStable(sorted, x) ==
    IF sorted = <<>> THEN <<x>>
    ELSE IF Compare(Head(sorted), x) <= 0
    THEN <<Head(sorted)>> \o InsertStable(Tail(sorted), x)
    ELSE <<x>> \o sorted

RECURSIVE Sort(_)
Sort(s) ==
    IF s = <<>> THEN <<>>
    ELSE InsertStable(Sort(SubSeq(s, 1, Len(s) - 1)), s[Len(s)])

\* .filter(f => f.hasVideo && f.hasAudio)
FilterCombined(s) == SelectSeq(s, IsCombined)

\* Array.prototype.slice(start, end): negative arguments count from the end.
ArraySlice(s, start, end) ==
    LET Clamp(k) == IF k < 0 THEN (IF Len(s) + k < 0 THEN 0 ELSE Len(s) + k)
                    ELSE (IF k > Len(s) THEN Len(s) ELSE k)
    IN  SubSeq(s, Clamp(start) + 1, Clamp(end))

Format(f) == [kind |-> "format", f |-> f]
NoFormat == [kind |-> "undefined"]

\* videoInfo.formats.sort(...): the sort applied to the caller's array
FormatsSortedInPlace(fs) == Sort(fs)

\* filter returns a new array and sort reorders that array, so after
\* videoInfo.formats.filter(...).sort(...) videoInfo.formats is as before.
FormatsAfterSort(fs) == fs

\* getBestFormat without `|| videoInfo.formats[0]`
getBestFormatNoFallback(fs) ==
    LET combined == Sort(FilterCombined(fs))
    IN  IF combined # <<>> THEN Format(combined[1]) ELSE NoFormat

\* getBestFormat, for a videoInfo that is not null
getBestFormat(fs) ==
    LET combined == Sort(FilterCombined(fs))
    IN  IF combined # <<>> THEN Format(combined[1])
        ELSE IF fs # <<>> THEN Format(fs[1])
        ELSE NoFormat

\* .slice(0, limit).filter(...): the two calls in the other order
presentableListSliceFirst(fs, limit) == FilterCombined(ArraySlice(fs, 0, limit))

\* .slice(0, Math.max(0, limit)): a negative limit taken as 0
presentableListClampNegative(fs, limit) ==
    ArraySlice(FilterCombined(fs), 0, IF limit < 0 THEN 0 ELSE limit)

\* videoInfo.formats.filter((f) => f.hasVideo && f.hasAudio).slice(0, 10)
presentableList(fs, limit) == ArraySlice(FilterCombined(fs), 0, limit)

\* videoInfo.formats.filter((f) => f.hasVideo && f.hasAudio).length
totalCombinedCount(fs) == Len(FilterCombined(fs))

\* What a format of a short list may be: a height and the two capabilities.
Attrs == Heights \X BOOLEAN \X BOOLEAN

\* A list of n formats with the attributes a; the tag of a format is its
\* position.
ShortList(n, a) ==
    [i \in 1..n |-> [itag |-> i, height |-> a[i][1],
                     hasVideo |-> a[i][2], hasAudio |-> a[i][3]]]

\* At most two positions of a list of n formats.
Gaps(n) == {{}} \cup {{i, j} : i \in 1..n, j \in 1..n}

\* A list of n formats, all combined but for the video-only ones at the
\* positions of gap.
LongList(n, gap) ==
    [i \in 1..n |-> [itag |-> i,
                     height |-> IF i \in gap THEN Undefined
                                ELSE i % (MaxHeight + 1),
                     hasVideo |-> TRUE, hasAudio |-> i \notin gap]]

----------------------------------------------------------------------------
(* Specification of the selector: the render of a video's formats. *)

InitSelector ==
    /\ \/ \E n \in 0..MaxShort : \E a \in [1..n -> Attrs] :
              formats = ShortList(n, a)
       \/ \E n \in 0..MaxLong : \E gap \in Gaps(n) :
              formats = LongList(n, gap)
    /\ best = NotComputed
    /\ shown = NotComputed
    /\ total = NotComputed
    /\ url = <<>>
    /\ result = NotCalled
    /\ FieldsIdle
    /\ LimitIdle
    /\ WorkerIdle
    /\ AppIdle
    /\ CacheIdle

\* {getBestFormat() && ...}
GetBestFormat ==
    /\ best = NotComputed
    /\ best' = getBestFormat(formats)
    /\ formats' = FormatsAfterSort(formats)
    /\ UNCHANGED <<shown, total, resolverVars, fieldVars, limitVars, workerVars, appVars, cacheVars>>

\* The formats list and the note under it.
RenderFormatsList ==
    /\ shown = NotComputed
    /\ shown' = [kind |-> "list", items |-> presentableList(formats, ListLimit)]
    /\ total' = [kind |-> "count", n |-> totalCombinedCount(formats),
                 note |-> totalCombinedCount(formats) > ListLimit]
    /\ UNCHANGED <<formats, best, resolverVars, fieldVars, limitVars, workerVars, appVars, cacheVars>>

NextSelector == GetBestFormat \/ RenderFormatsList

SpecSelector == InitSelector /\ [][NextSelector]_vars

----------------------------------------------------------------------------
(* Specification of the cut of the formats list, the 10 of .slice(0, 10)  *)
(* taken as a parameter.                                                   *)

MaxListed == 5
MaxLimit == 3
MaxNegLimit == 2

InitLimit ==
    /\ \E n \in 0..MaxListed : \E gap \in Gaps(n) : formats = LongList(n, gap)
    /\ sliceEnd \in (0 - MaxNegLimit)..MaxLimit
    /\ listed = NotComputed
    /\ best = NotComputed
    /\ shown = NotComputed
    /\ total = NotComputed
    /\ url = <<>>
    /\ result = NotCalled
    /\ FieldsIdle
    /\ WorkerIdle
    /\ AppIdle
    /\ CacheIdle

\* videoInfo.formats.filter(...).slice(0, limit)
PresentList ==
    /\ listed = NotComputed
    /\ listed' = [kind |-> "list", items |-> presentableList(formats, sliceEnd)]
    /\ UNCHANGED <<sliceEnd, resolverVars, selectorVars, fieldVars, workerVars, appVars, cacheVars>>

NextLimit == PresentList

SpecLimit == InitLimit /\ [][NextLimit]_vars

----------------------------------------------------------------------------
(* The derived fields of one format: container and formatBytes. *)

Text(t) == [kind |-> "text", text |-> t]

Unknown == <<"u", "n", "k", "n", "o", "w", "n">>

\* format.mime_type?.split(';')[0]: the split('/') forgotten
ContainerWholeType(mime) ==
    IF ~mime.present THEN Unknown
    ELSE LET type == Split(mime.text, ";")[1]
         IN  IF Truthy(type) THEN type ELSE Unknown

\* format.mime_type?.split(';')[0]?.split('/')[1] || 'unknown'
Container(mime) ==
    IF ~mime.present THEN Unknown
    ELSE LET parts == Split(Split(mime.text, ";")[1], "/")
         IN  IF Len(parts) >= 2 /\ Truthy(parts[2]) THEN parts[2] ELSE Unknown

\* const k = 1024
K == 1024

\* const sizes = ["Bytes", "KB", "MB", "GB"]
sizes == << <<"B", "y", "t", "e", "s">>, <<"K", "B">>, <<"M", "B">>, <<"G", "B">> >>

DigitSeq == <<"0", "1", "2", "3", "4", "5", "6", "7", "8", "9">>

DigitValue(c) == (CHOOSE i \in 1..10 : DigitSeq[i] = c) - 1

\* A number is kept as its digits in base K, the least significant first,
\* without leading zeros: <<>> is 0.  limbs * m + carry:
RECURSIVE MulAdd(_, _, _)
MulAdd(limbs, m, carry) ==
    IF limbs = <<>>
    THEN (IF carry = 0 THEN <<>> ELSE <<carry % K>> \o MulAdd(<<>>, m, carry \div K))
    ELSE LET v == Head(limbs) * m + carry
         IN  <<v % K>> \o MulAdd(Tail(limbs), m, v \div K)

\* The value of a string of decimal digits, after acc.
RECURSIVE DecimalValue(_, _)
DecimalValue(digits, acc) ==
    IF digits = <<>> THEN acc
    ELSE DecimalValue(Tail(digits), MulAdd(acc, 10, DigitValue(Head(digits))))

NaN == [nan |-> TRUE, neg |-> FALSE, limbs |-> <<>>]

\* parseInt(bytes): leading white space skipped, an optional sign, then the
\* longest run of decimal digits; NaN when the run is empty.
ParseInt(str) ==
    LET I == {i \in 1..Len(str) : str[i] \notin C0OrSpace}
        t == IF I = {} THEN <<>> ELSE SubSeq(str, Min(I), Len(str))
        signed == t # <<>> /\ t[1] \in {"+", "-"}
        u == IF signed THEN Tail(t) ELSE t
        stop == {i \in 1..Len(u) : u[i] \notin Digit}
        run == IF stop = {} THEN u ELSE SubSeq(u, 1, Min(stop) - 1)
    IN  IF run = <<>> THEN NaN
        ELSE [nan |-> FALSE, neg |-> signed /\ t[1] = "-",
              limbs |-> DecimalValue(run, <<>>)]

\* String(n) for a natural number n
RECURSIVE DecText(_)
DecText(n) ==
    IF n < 10 THEN <<DigitSeq[n + 1]>>
    ELSE DecText(n \div 10) \o <<DigitSeq[(n % 10) + 1]>>

\* String(h / 100) for a natural number h of hundredths
HundredthsText(h) ==
    DecText(h \div 100) \o
        (IF h % 100 = 0 THEN <<>>
         ELSE IF h % 10 = 0 THEN <<".", DigitSeq[((h % 100) \div 10) + 1]>>
         ELSE <<".", DigitSeq[((h % 100) \div 10) + 1], DigitSeq[(h % 10) + 1]>>)

\* Math.round(num / Math.pow(k, i) * 100), for the number of i + 1 limbs
Hundredths(limbs, i) ==
    LET twice == MulAdd(SubSeq(limbs, 1, i), 200, 0)
        carry == IF Len(twice) > i THEN twice[i + 1] ELSE 0
    IN  100 * limbs[i + 1] + ((carry + 1) \div 2)

\* formatBytes: the doubles are exact for the byte counts below 2^53, and
\* Math.floor(Math.log(num) / Math.log(k)) is the number of limbs less one.
formatBytes(bytes) ==
    LET num == ParseInt(bytes)
        i == Len(num.limbs) - 1
    IN  IF num.nan THEN bytes
        ELSE IF num.limbs = <<>> THEN <<"0", " ", "B", "y", "t", "e", "s">>
        ELSE IF num.neg THEN <<"N", "a", "N", " ", "u", "n", "d", "e", "f", "i", "n", "e", "d">>    \* Math.log of a negative number
        ELSE HundredthsText(Hundredths(num.limbs, i)) \o <<" ">> \o
                 (IF i + 1 <= Len(sizes) THEN sizes[i + 1] ELSE <<"u", "n", "d", "e", "f", "i", "n", "e", "d">>)

MaxMime == 3
MaxBytesLen == 3

MimeChars == {"v", "m", "/", ";"}
ByteChars == {"0", "1", "9", "a", " ", "-"}

MimeTypes ==
    { <<"v", "i", "d", "e", "o", "/", "m", "p", "4", ";", " ", "c", "o", "d", "e", "c", "s", "=", "\"", "a", "v", "c", "1", "\"">>, <<"a", "u", "d", "i", "o", "/", "w", "e", "b", "m", ";", " ", "c", "o", "d", "e", "c", "s", "=", "\"", "o", "p", "u", "s", "\"">>, <<"v", "i", "d", "e", "o", "/", "m", "p", "4">>,
      <<"v", "i", "d", "e", "o", "/", "m", "p", "4", "/", "x", ";", " ", "a">>, <<"v", "i", "d", "e", "o", ";", " ", "a", "/", "b">> }

ByteCounts ==
    { <<"1", "0", "2", "3">>, <<"1", "0", "2", "4">>, <<"1", "5", "3", "6">>, <<"2", "0", "4", "7">>, <<"1", "0", "4", "8", "5", "7", "6">>, <<"1", "0", "7", "3", "7", "4", "1", "8", "2", "4">>,
      <<"1", "0", "9", "9", "5", "1", "1", "6", "2", "7", "7", "7", "5">>, <<"1", "0", "9", "9", "5", "1", "1", "6", "2", "7", "7", "7", "6">>, <<"5", "0", "0", "0", "0", "0", "0", "0", "0", "0", "0", "0", "0">>,
      <<"1", "2", "a", "b", "c">>, <<"a", "b", "c">>, <<"1", "2", ".", "5">>, <<"1", "e", "3">> }

----------------------------------------------------------------------------
(* Specification of the derived fields of one format. *)

InitFields ==
    /\ \/ /\ \/ mimeType = NoMimeType
             \/ \E t \in MimeTypes : mimeType = [present |-> TRUE, text |-> t]
             \/ \E n \in 0..MaxMime : \E t \in [1..n -> MimeChars] :
                    mimeType = [present |-> TRUE, text |-> t]
          /\ contentLength = <<"0">>
       \/ /\ mimeType = NoMimeType
          /\ \/ \E b \in ByteCounts : contentLength = b
             \/ \E n \in 0..MaxBytesLen : \E b \in [1..n -> ByteChars] :
                    contentLength = b
    /\ container = NotComputed
    /\ humanSize = NotComputed
    /\ url = <<>>
    /\ result = NotCalled
    /\ SelectorIdle
    /\ LimitIdle
    /\ WorkerIdle
    /\ AppIdle
    /\ CacheIdle

\* container: format.mime_type?.split(';')[0]?.split('/')[1] || 'unknown'
DeriveContainer ==
    /\ container = NotComputed
    /\ container' = Text(Container(mimeType))
    /\ UNCHANGED <<mimeType, contentLength, humanSize, resolverVars, selectorVars,
                   limitVars, workerVars, appVars, cacheVars>>

\* {formatBytes(format.contentLength)}
FormatBytes ==
    /\ humanSize = NotComputed
    /\ humanSize' = Text(formatBytes(contentLength))
    /\ UNCHANGED <<mimeType, container, contentLength, resolverVars, selectorVars,
                   limitVars, workerVars, appVars, cacheVars>>

NextFields == DeriveContainer \/ FormatBytes

SpecFields == InitFields /\ [][NextFields]_vars

----------------------------------------------------------------------------
(* The handlers of the worker: POST /api/video/info and                   *)
(* POST /api/video/download.  A value that may be undefined is a record   *)
(* [present, text] or [present, value].                                    *)

Absent == [present |-> FALSE, text |-> <<>>]

Present(t) == [present |-> TRUE, text |-> t]

\* x || fallback, for a string x that may be undefined
OrElse(x, fallback) == IF x.present /\ Truthy(x.text) THEN x.text ELSE fallback

NoFlag == [present |-> FALSE, value |-> FALSE]

Flag(b) == [present |-> TRUE, value |-> b]

Flags == {NoFlag, Flag(TRUE), Flag(FALSE)}

\* x || false, for a boolean x that may be undefined
OrFalse(x) == x.present /\ x.value

\* c.json(body, status)
Json(body, status) == [status |-> status, body |-> body]

\* the catch of a handler: c.json({ error: error.message, ... }, 500)
Caught(message) == Json([error |-> message], 500)

UrlRequired == "URL is required"

InvalidMessage == "Invalid YouTube URL or video ID"

\* the messages of the errors thrown outside the handler's own code
JsonMessage == "c.req.json() rejected"
CreateMessage == "Innertube.create rejected"
GetInfoMessage == "yt.getInfo rejected"
DownloadMessage == "yt.download rejected"
DecipherMessage == "format.decipher threw"

\* one format as the provider gives it: every field but itag may be
\* missing, and format.decipher(yt.session.player) returns or throws
RawFormats ==
    [itag : {18},
     quality_label : {Absent, Present(<<"7", "2", "0", "p">>)},
     quality : {Absent, Present(<<"h", "d", "7", "2", "0">>)},
     mime_type : {Absent, Present(<<"v", "i", "d", "e", "o", "/", "m", "p", "4", ";", " ", "c", "o", "d", "e", "c", "s", "=", "\"", "a", "v", "c", "1", "\"">>)},
     has_video : Flags,
     has_audio : Flags,
     content_length : {Absent, Present(<<"1", "0", "2", "4">>)},
     deciphers : BOOLEAN]

WellFormed ==
    [itag |-> 22,
     quality_label |-> Present(<<"1", "0", "8", "0", "p">>),
     quality |-> Present(<<"h", "d", "1", "0", "8", "0">>),
     mime_type |-> Present(<<"v", "i", "d", "e", "o", "/", "m", "p", "4", ";", " ", "c", "o", "d", "e", "c", "s", "=", "\"", "a", "v", "c", "1", "\"">>),
     has_video |-> Flag(TRUE),
     has_audio |-> Flag(TRUE),
     content_length |-> Present(<<"2", "0", "4", "7">>),
     deciphers |-> TRUE]

\* the longest list of formats the provider gives
MaxRaw == 2

\* info.basic_info with every field, and with none
BasicFull ==
    [title |-> Present(<<"a", " ", "t", "i", "t", "l", "e">>),
     author |-> Present(<<"a", "n", " ", "a", "u", "t", "h", "o", "r">>),
     duration |-> Present(<<"2", "1", "2">>),
     view_count |-> Present(<<"1", "0", "0", "0">>),
     thumbnail |-> Present(<<"h", "t", "t", "p", "s", ":", "/", "/", "i", ".", "y", "t", "i", "m", "g", ".", "c", "o", "m", "/", "v", "i", "/", "x", "/", "0", ".", "j", "p", "g">>),
     short_description |-> Present(<<"a", " ", "d", "e", "s", "c", "r", "i", "p", "t", "i", "o", "n">>)]

BasicEmpty ==
    [title |-> Absent, author |-> Absent, duration |-> Absent,
     view_count |-> Absent, thumbnail |-> Absent,
     short_description |-> Absent]

\* info.streaming_data?.formats and ?.adaptive_formats, undefined or a list
NoList == [present |-> FALSE, items |-> <<>>]

List(items) == [present |-> TRUE, items |-> items]

Info(basic, fs, adaptive) ==
    [kind |-> "info", basic_info |-> basic, formats |-> fs,
     adaptive_formats |-> adaptive]

\* (info.streaming_data?.formats || [])
\*     .concat(info.streaming_data?.adaptive_formats || [])
RawList(i) == i.formats.items \o i.adaptive_formats.items

\* the deciphered URL of a format
DecipheredUrl(f) == <<"h", "t", "t", "p", "s", ":", "/", "/", "r", "1", ".", "g", "o", "o", "g", "l", "e", "v", "i", "d", "e", "o", ".", "c", "o", "m", "/", "v", "i", "d", "e", "o", "p", "l", "a", "y", "b", "a", "c", "k", "?", "i", "t", "a", "g", "=">>
                        \o (IF f.itag = 22 THEN <<"2", "2">> ELSE <<"1", "8">>)

\* the callback of .map(): one record of the response
Shape(f) ==
    [itag |-> f.itag,
     quality |-> OrElse(f.quality_label, OrElse(f.quality, Unknown)),
     mimeType |-> f.mime_type,
     hasVideo |-> OrFalse(f.has_video),
     hasAudio |-> OrFalse(f.has_audio),
     container |-> Container(f.mime_type),
     contentLength |-> OrElse(f.content_length, <<"0">>),
     url |-> DecipheredUrl(f)]

\* const videoDetails = { ... }
VideoDetails(i) ==
    [title |-> OrElse(i.basic_info.title, <<"U", "n", "k", "n", "o", "w", "n">>),
     author |-> OrElse(i.basic_info.author, <<"U", "n", "k", "n", "o", "w", "n">>),
     lengthSeconds |-> OrElse(i.basic_info.duration, <<"0">>),
     viewCount |-> OrElse(i.basic_info.view_count, <<"0">>),
     thumbnail |-> OrElse(i.basic_info.thumbnail, <<>>),
     description |-> OrElse(i.basic_info.short_description, <<>>),
     formats |-> [k \in 1..Len(RawList(i)) |-> Shape(RawList(i)[k])]]

\* the handler from the resolution of yt.getInfo to its return: a throw of
\* format.decipher inside .map() is caught by the handler's catch
InfoResponse(i) ==
    IF \E k \in 1..Len(RawList(i)) : ~RawList(i)[k].deciphers
    THEN Caught(DecipherMessage)
    ELSE Json(VideoDetails(i), 200)

\* new Response(stream, { headers })
StreamResponse(id) ==
    Json([stream |-> "video+audio mp4",
          contentType |-> <<"v", "i", "d", "e", "o", "/", "m", "p", "4">>,
          contentDisposition |-> <<"a", "t", "t", "a", "c", "h", "m", "e", "n", "t", ";", " ", "f", "i", "l", "e", "n", "a", "m", "e", "=", "\"", "v", "i", "d", "e", "o", "_">> \o id
                                    \o <<".", "m", "p", "4", "\"">>], 200)

----------------------------------------------------------------------------
(* Specification of the worker: one request through its handler. *)

Endpoints == {"info", "download"}

RequestUrls ==
    {<<"d", "Q", "w", "4", "w", "9", "W", "g", "X", "c", "Q">>,
     <<"h", "t", "t", "p", "s", ":", "/", "/", "y", "o", "u", "t", "u", ".", "b", "e", "/", "M", "h", "1", "h", "K", "t", "5", "k", "Q", "_", "4">>,
     <<"h", "t", "t", "p", "s", ":", "/", "/", "w", "w", "w", ".", "y", "o", "u", "t", "u", "b", "e", ".", "c", "o", "m", "/", "w", "a", "t", "c", "h", "?", "v", "=", "M", "h", "1", "h", "K", "t", "5", "k", "Q", "_", "4", "&", "l", "i", "s", "t", "=", "R", "D", "M", "h", "1", "h", "K", "t", "5", "k", "Q", "_", "4">>,
     <<"h", "t", "t", "p", "s", ":", "/", "/", "e", "x", "a", "m", "p", "l", "e", ".", "c", "o", "m", "/">>,
     <<"a", "b", "c">>}

Requests ==
    [endpoint : Endpoints, json : {TRUE},
     url : {Absent, Present(<<>>)} \cup {Present(u) : u \in RequestUrls}]
    \cup [endpoint : Endpoints, json : {FALSE}, url : {Absent}]

\* the lists of at most n formats of which at most one is not WellFormed
RawLists(n) ==
    {<<>>} \cup
    UNION {{[k \in 1..m |-> IF k = p THEN r ELSE WellFormed] :
                p \in 1..m, r \in RawFormats \cup {WellFormed}} : m \in 1..n}

InitWorker ==
    /\ request \in Requests
    /\ pc = "received"
    /\ handlerVideoId = <<>>
    /\ calls = <<>>
    /\ info = NoInfo
    /\ response = NotComputed
    /\ url = <<>>
    /\ result = NotCalled
    /\ SelectorIdle
    /\ FieldsIdle
    /\ LimitIdle
    /\ AppIdle
    /\ CacheIdle

Respond(r) ==
    /\ response' = r
    /\ pc' = "done"

\* a handler with const yt = await getInnertube() moved before
\* extractVideoId(url): the provider is called for a url that does not
\* resolve
ReceiveProviderFirst ==
    /\ pc = "received"
    /\ IF ~request.json
       THEN Respond(Caught(JsonMessage))
               /\ UNCHANGED <<handlerVideoId, calls>>
       ELSE IF ~request.url.present \/ ~Truthy(request.url.text)
       THEN Respond(Json([error |-> UrlRequired], 400))
               /\ UNCHANGED <<handlerVideoId, calls>>
       ELSE LET r == extractVideoId(request.url.text)
            IN  /\ calls' = Append(calls, "Innertube.create")
                /\ IF r.kind = "thrown"
                   THEN Respond(Caught(InvalidMessage))
                           /\ UNCHANGED handlerVideoId
                   ELSE /\ handlerVideoId' = r.id
                        /\ pc' = "creating"
                        /\ UNCHANGED response
    /\ UNCHANGED <<request, info, resolverVars, selectorVars, fieldVars,
                   limitVars, appVars,
                   cacheVars>>

\* from the start of a handler to its first await of the provider
Receive ==
    /\ pc = "received"
    /\ IF ~request.json
       THEN Respond(Caught(JsonMessage))
               /\ UNCHANGED <<handlerVideoId, calls>>
       ELSE IF ~request.url.present \/ ~Truthy(request.url.text)
       THEN Respond(Json([error |-> UrlRequired], 400))
               /\ UNCHANGED <<handlerVideoId, calls>>
       ELSE LET r == extractVideoId(request.url.text)
            IN  IF r.kind = "thrown"
                THEN Respond(Caught(InvalidMessage))
                        /\ UNCHANGED <<handlerVideoId, calls>>
                ELSE /\ handlerVideoId' = r.id
                     /\ calls' = Append(calls, "Innertube.create")
                     /\ pc' = "creating"
                     /\ UNCHANGED response
    /\ UNCHANGED <<request, info, resolverVars, selectorVars, fieldVars,
                   limitVars, appVars,
                   cacheVars>>

\* await getInnertube() resolves: the handler calls the provider
CreateResolves ==
    /\ pc = "creating"
    /\ IF request.endpoint = "info"
       THEN calls' = Append(calls, "getInfo") /\ pc' = "getInfo"
       ELSE calls' = Append(calls, "download") /\ pc' = "download"
    /\ UNCHANGED <<request, handlerVideoId, info, response, resolverVars,
                   selectorVars, fieldVars, limitVars, appVars,
                   cacheVars>>

CreateRejects ==
    /\ pc = "creating"
    /\ Respond(Caught(CreateMessage))
    /\ UNCHANGED <<request, handlerVideoId, calls, info, resolverVars,
                   selectorVars, fieldVars, limitVars, appVars,
                   cacheVars>>

GetInfoResolves ==
    /\ pc = "getInfo"
    /\ \E basic \in {BasicFull, BasicEmpty},
          fs \in {NoList} \cup {List(l) : l \in RawLists(MaxRaw)},
          adaptive \in {NoList, List(<<>>), List(<<WellFormed>>)} :
            /\ info' = Info(basic, fs, adaptive)
            /\ Respond(InfoResponse(Info(basic, fs, adaptive)))
    /\ UNCHANGED <<request, handlerVideoId, calls, resolverVars,
                   selectorVars, fieldVars, limitVars, appVars,
                   cacheVars>>

GetInfoRejects ==
    /\ pc = "getInfo"
    /\ Respond(Caught(GetInfoMessage))
    /\ UNCHANGED <<request, handlerVideoId, calls, info, resolverVars,
                   selectorVars, fieldVars, limitVars, appVars,
                   cacheVars>>

DownloadResolves ==
    /\ pc = "download"
    /\ Respond(StreamResponse(handlerVideoId))
    /\ UNCHANGED <<request, handlerVideoId, calls, info, resolverVars,
                   selectorVars, fieldVars, limitVars, appVars,
                   cacheVars>>

DownloadRejects ==
    /\ pc = "download"
    /\ Respond(Caught(DownloadMessage))
    /\ UNCHANGED <<request, handlerVideoId, calls, info, resolverVars,
                   selectorVars, fieldVars, limitVars, appVars,
                   cacheVars>>

NextWorker ==
    \/ Receive
    \/ CreateResolves
    \/ CreateRejects
    \/ GetInfoResolves
    \/ GetInfoRejects
    \/ DownloadResolves
    \/ DownloadRejects

SpecWorker == InitWorker /\ [][NextWorker]_vars

----------------------------------------------------------------------------
(* The React App: its four pieces of state, handleFetchInfo,              *)
(* handleDownload of the variant with the download button, and the events *)
(* that the rendered controls let through.  The variant without download  *)
(* is the same App without ClickDownload and the Download actions.        *)

\* the longest text typed into the input
MaxUrl == 2

UrlChars == {" ", "a"}

UrlTexts == UNION {[1..n -> UrlChars] : n \in 0..MaxUrl}

\* the cap on requests in flight
MaxInFlight == 2

RECURSIVE TrimStart(_)
TrimStart(s) ==
    IF s # <<>> /\ Head(s) = " " THEN TrimStart(Tail(s)) ELSE s

RECURSIVE TrimEnd(_)
TrimEnd(s) ==
    IF s # <<>> /\ s[Len(s)] = " " THEN TrimEnd(SubSeq(s, 1, Len(s) - 1))
    ELSE s

\* String.prototype.trim
Trim(s) == TrimEnd(TrimStart(s))

EnterUrl == "Please enter a video URL"

FetchFailed == "Failed to fetch video information"

DownloadFailed == "Failed to download video"

Occurred == "An error occurred"

\* data.error of a response that is not OK, "" when it has none
DataErrors == {"", InvalidMessage}

\* err.message of what fetch, response.json() or response.blob() throws
ThrownMessages == {"", "Failed to fetch"}

\* x || fallback, for a message
MessageOr(x, fallback) == IF x = "" THEN fallback ELSE x

\* data of an OK response to the request for u
VideoInfoFor(u) == [kind |-> "videoInfo", url |-> u]

Sent(kind, u) == [kind |-> kind, url |-> u]

\* the sequence without its i-th element
Without(q, i) == SubSeq(q, 1, i - 1) \o SubSeq(q, i + 1, Len(q))

InitApp ==
    /\ AppIdle
    /\ url = <<>>
    /\ result = NotCalled
    /\ SelectorIdle
    /\ FieldsIdle
    /\ LimitIdle
    /\ WorkerIdle
    /\ CacheIdle

\* handleFetchInfo without setVideoInfo(null)
handleFetchInfoKeepsInfo ==
    /\ Len(inFlight) < MaxInFlight
    /\ IF Trim(appUrl) = <<>>
       THEN /\ error' = EnterUrl
            /\ UNCHANGED <<loading, videoInfo, inFlight>>
       ELSE /\ loading' = TRUE
            /\ error' = ""
            /\ UNCHANGED videoInfo
            /\ inFlight' = Append(inFlight, Sent("info", appUrl))
    /\ UNCHANGED appUrl

\* handleFetchInfo, to its await of fetch
handleFetchInfo ==
    /\ Len(inFlight) < MaxInFlight
    /\ IF Trim(appUrl) = <<>>
       THEN /\ error' = EnterUrl
            /\ UNCHANGED <<loading, videoInfo, inFlight>>
       ELSE /\ loading' = TRUE
            /\ error' = ""
            /\ videoInfo' = NoVideoInfo
            /\ inFlight' = Append(inFlight, Sent("info", appUrl))
    /\ UNCHANGED appUrl

\* handleDownload, to its await of fetch
handleDownload ==
    /\ Len(inFlight) < MaxInFlight
    /\ IF Trim(appUrl) = <<>>
       THEN /\ error' = EnterUrl
            /\ UNCHANGED <<loading, inFlight>>
       ELSE /\ loading' = TRUE
            /\ error' = ""
            /\ inFlight' = Append(inFlight, Sent("download", appUrl))
    /\ UNCHANGED <<appUrl, videoInfo>>

Elsewhere ==
    UNCHANGED <<resolverVars, selectorVars, fieldVars, limitVars,
                workerVars, cacheVars>>

\* onChange of the input, which is disabled while loading
SetUrl ==
    /\ ~loading
    /\ \E v \in UrlTexts \ {appUrl} : appUrl' = v
    /\ UNCHANGED <<loading, videoInfo, error, inFlight>>
    /\ Elsewhere

\* onKeyPress of an input that takes keys while loading
PressEnterWhileLoading ==
    /\ handleFetchInfo
    /\ Elsewhere

\* onKeyPress of the input with the Enter key; the input is disabled
\* while loading
PressEnter ==
    /\ ~loading
    /\ handleFetchInfo
    /\ Elsewhere

\* onClick of the button, disabled={loading || !url.trim()}
ClickFetch ==
    /\ ~loading
    /\ Trim(appUrl) # <<>>
    /\ handleFetchInfo
    /\ Elsewhere

\* onClick of the download button, rendered when videoInfo is set and
\* disabled while loading
ClickDownload ==
    /\ videoInfo # NoVideoInfo
    /\ ~loading
    /\ handleDownload
    /\ Elsewhere

\* the continuation of a handler takes its request i out of flight
Settled(kind, i) ==
    /\ inFlight[i].kind = kind
    /\ inFlight' = Without(inFlight, i)
    /\ UNCHANGED appUrl
    /\ Elsewhere

\* handleFetchInfo: response.ok, setVideoInfo(data), finally
InfoOk ==
    \E i \in 1..Len(inFlight) :
        /\ Settled("info", i)
        /\ videoInfo' = VideoInfoFor(inFlight[i].url)
        /\ loading' = FALSE
        /\ UNCHANGED error

\* handleFetchInfo: !response.ok, throw, catch, finally
InfoNotOk ==
    \E i \in 1..Len(inFlight), e \in DataErrors :
        /\ Settled("info", i)
        /\ error' = MessageOr(MessageOr(e, FetchFailed), Occurred)
        /\ loading' = FALSE
        /\ UNCHANGED videoInfo

\* a catch that leaves loading as it is, the finally forgotten
InfoThrowsNoFinally ==
    \E i \in 1..Len(inFlight), m \in ThrownMessages :
        /\ Settled("info", i)
        /\ error' = MessageOr(m, Occurred)
        /\ UNCHANGED <<loading, videoInfo>>

\* handleFetchInfo: fetch or response.json() throws, catch, finally
InfoThrows ==
    \E i \in 1..Len(inFlight), m \in ThrownMessages :
        /\ Settled("info", i)
        /\ error' = MessageOr(m, Occurred)
        /\ loading' = FALSE
        /\ UNCHANGED videoInfo

\* handleDownload: response.ok, the blob is saved, finally
DownloadOk ==
    \E i \in 1..Len(inFlight) :
        /\ Settled("download", i)
        /\ loading' = FALSE
        /\ UNCHANGED <<videoInfo, error>>

\* handleDownload: !response.ok, throw, catch, finally
DownloadNotOk ==
    \E i \in 1..Len(inFlight), e \in DataErrors :
        /\ Settled("download", i)
        /\ error' = MessageOr(MessageOr(e, DownloadFailed), Occurred)
        /\ loading' = FALSE
        /\ UNCHANGED videoInfo

\* handleDownload: fetch, response.json() or response.blob() throws
DownloadThrows ==
    \E i \in 1..Len(inFlight), m \in ThrownMessages :
        /\ Settled("download", i)
        /\ error' = MessageOr(m, Occurred)
        /\ loading' = FALSE
        /\ UNCHANGED videoInfo

\* a request in flight settles
Settle ==
    \/ InfoOk
    \/ InfoNotOk
    \/ InfoThrows
    \/ DownloadOk
    \/ DownloadNotOk
    \/ DownloadThrows

NextApp ==
    \/ SetUrl
    \/ PressEnter
    \/ ClickFetch
    \/ ClickDownload
    \/ InfoOk
    \/ InfoNotOk
    \/ InfoThrows
    \/ DownloadOk
    \/ DownloadNotOk
    \/ DownloadThrows

SpecApp == InitApp /\ [][NextApp]_vars

\* every request in flight settles at last
SpecAppFair == SpecApp /\ WF_vars(Settle)

----------------------------------------------------------------------------
(* The worker that caches the Innertube instance in the global yt:        *)
(* concurrent requests of one worker instance through getInnertube.  The  *)
(* instances are numbered by the call of Innertube.create that made them. *)

InitCache ==
    /\ yt = 0
    /\ created = 0
    /\ \E n \in 1..MaxRequests :
        stage = [r \in 1..MaxRequests |->
                    IF r <= n THEN "received" ELSE "absent"]
    /\ instance = [r \in 1..MaxRequests |-> 0]
    /\ url = <<>>
    /\ result = NotCalled
    /\ SelectorIdle
    /\ FieldsIdle
    /\ LimitIdle
    /\ WorkerIdle
    /\ AppIdle

Apart ==
    UNCHANGED <<resolverVars, selectorVars, fieldVars, limitVars,
                workerVars, appVars>>

\* a handler calls getInnertube(): if (!yt) it calls Innertube.create and
\* awaits it, else it returns yt
CallGetInnertube(r) ==
    /\ stage[r] = "received"
    /\ IF yt = 0
       THEN /\ created' = created + 1
            /\ instance' = [instance EXCEPT ![r] = created + 1]
            /\ stage' = [stage EXCEPT ![r] = "creating"]
       ELSE /\ instance' = [instance EXCEPT ![r] = yt]
            /\ stage' = [stage EXCEPT ![r] = "returned"]
            /\ UNCHANGED created
    /\ UNCHANGED yt
    /\ Apart

\* yt = await Innertube.create(...) resolves; return yt
CreateResolved(r) ==
    /\ stage[r] = "creating"
    /\ yt' = instance[r]
    /\ stage' = [stage EXCEPT ![r] = "returned"]
    /\ UNCHANGED <<created, instance>>
    /\ Apart

\* await Innertube.create(...) rejects: the handler's catch answers 500
CreateRejected(r) ==
    /\ stage[r] = "creating"
    /\ stage' = [stage EXCEPT ![r] = "failed"]
    /\ instance' = [instance EXCEPT ![r] = 0]
    /\ UNCHANGED <<yt, created>>
    /\ Apart

NextCache ==
    \E r \in 1..MaxRequests :
        \/ CallGetInnertube(r)
        \/ CreateResolved(r)
        \/ CreateRejected(r)

SpecCache == InitCache /\ [][NextCache]_vars

----------------------------------------------------------------------------
(* Properties of the resolver, checked under SpecResolver. *)

Called == result # NotCalled

\* C1: whenever extractVideoId returns a value, the value is exactly 11
\* characters long and every character is in [A-Za-z0-9_-].
C1_ReturnedIsVideoIdentifier ==
    result.kind = "returned" => IsVideoIdentifier(result.id)

\* C2: for every X of 11 allowed characters and every sequence of query
\* parameters appended after it, "https://www.youtube.com/watch?v=X" with
\* the parameters resolves to exactly X.
C2_WatchUrlIgnoresExtras ==
    \A x \in ValidIds, e \in QueryExtras :
        (Called /\ url = WatchPrefix \o x \o e) => result = Returned(x)

C2_Witness ==
    /\ url = WatchPrefix \o <<"M", "h", "1", "h", "K", "t", "5", "k", "Q", "_", "4">> \o <<"&", "l", "i", "s", "t", "=", "R", "D", "M", "h", "1", "h", "K", "t", "5", "k", "Q", "_", "4", "&", "v", "=", "z", "z", "z", "z", "z", "z", "z", "z", "z", "z", "z">>
    /\ result = Returned(<<"M", "h", "1", "h", "K", "t", "5", "k", "Q", "_", "4">>)

\* C6: for every X of 11 allowed characters, "https://youtu.be/X" resolves
\* to exactly X.
C6_ShortLinkResolves ==
    \A x \in ValidIds : (Called /\ url = ShortPrefix \o x) => result = Returned(x)

C6_Witness ==
    /\ url = ShortPrefix \o <<"d", "Q", "w", "4", "w", "9", "W", "g", "X", "c", "Q">>
    /\ result = Returned(<<"d", "Q", "w", "4", "w", "9", "W", "g", "X", "c", "Q">>)

\* The input, lower-cased and without whitespace, names neither youtu.be
\* nor a youtube.com watch page.
NoYoutubeReference(s) ==
    LET t == ToLower(SelectSeq(s, LAMBDA c : c \notin C0OrSpace))
    IN  /\ ~Includes(t, YoutuBe)
        /\ ~(Includes(t, YoutubeCom) /\ Includes(t, WatchPath))

\* C7: an input that contains neither a youtube.com watch URL nor a
\* youtu.be link resolves if and only if the whole input is 11 characters of
\* [A-Za-z0-9_-], and it then resolves to the input itself.
C7_BareIdentifierAnchored ==
    (Called /\ NoYoutubeReference(url)) =>
        /\ (result.kind = "returned") <=> IsVideoIdentifier(url)
        /\ (result.kind = "returned") => result.id = url

C7_Witness ==
    /\ url = <<"d", "Q", "w", "4", "w", "9", "W", "g", "X", "c", "Q">>
    /\ result = Returned(url)

\* The bare pattern does not match inside a longer string.
C7_WitnessLonger ==
    /\ url = <<"d", "Q", "w", "4", "w", "9", "W", "g", "X", "c", "Q", "Q">>
    /\ result = InvalidReference

\* C8: every valid URL whose host is neither youtu.be nor contains
\* youtube.com, whatever its path and query, fails with InvalidReference.
C8_UnrelatedHostFails ==
    LET urlObj == URLParse(url)
    IN  ( /\ Called
          /\ urlObj.ok
          /\ urlObj.hostname # YoutuBe
          /\ ~Includes(urlObj.hostname, YoutubeCom) )
        => result = InvalidReference

\* C9: every youtube.com watch URL whose v parameter is present and empty
\* fails with InvalidReference.
C9_EmptyVFails ==
    LET urlObj == URLParse(url)
    IN  ( /\ Called
          /\ urlObj.ok
          /\ Includes(urlObj.hostname, YoutubeCom)
          /\ urlObj.pathname = WatchPath
          /\ WatchId(urlObj).present
          /\ WatchId(urlObj).value = <<>> )
        => result = InvalidReference

\* C10: the empty string fails with InvalidReference: new URL rejects it
\* and no pattern matches it.
C10_EmptyStringFails ==
    (Called /\ url = <<>>) =>
        /\ result = InvalidReference
        /\ ~URLParse(url).ok
        /\ \A i \in 1..Len(patterns) : ~StringMatch(url, patterns[i]).ok

C10_Witness ==
    /\ url = <<>>
    /\ result = InvalidReference

----------------------------------------------------------------------------
(* Properties of the selector, checked under SpecSelector. *)

Combined == {i \in 1..Len(formats) : IsCombined(formats[i])}

\* C3: among the formats with video and audio, getBestFormat returns the
\* one of greatest height, and the first of the list when several share it;
\* a format without audio or video is never chosen while a combined one
\* exists.
C3_BestIsFirstOfGreatestHeight ==
    (best # NotComputed /\ Combined # {}) =>
        \E i \in Combined :
            /\ best = Format(formats[i])
            /\ \A j \in Combined :
                  \/ HeightOrZero(formats[j]) < HeightOrZero(formats[i])
                  \/ HeightOrZero(formats[j]) = HeightOrZero(formats[i]) /\ i <= j

\* A tie at the greatest height, and a taller format without audio.
C3_Witness ==
    /\ Len(formats) = 3
    /\ IsCombined(formats[1]) /\ IsCombined(formats[2]) /\ ~formats[3].hasAudio
    /\ formats[1].height = 1 /\ formats[2].height = 1 /\ formats[3].height = 2
    /\ best = Format(formats[1])

\* C4: when no format has both video and audio getBestFormat returns the
\* first element of the list, and nothing when the list is empty.
C4_FallbackIsFirstElement ==
    (best # NotComputed /\ Combined = {}) =>
        best = IF formats = <<>> THEN NoFormat ELSE Format(formats[1])

C4_Witness ==
    /\ Len(formats) = 2
    /\ Combined = {}
    /\ best = Format(formats[1])

C4_WitnessEmpty ==
    /\ formats = <<>>
    /\ best = NoFormat

\* The k-th format of the list that has video and audio.
NthCombined(k) ==
    formats[CHOOSE i \in Combined : Cardinality({j \in Combined : j < i}) = k - 1]

\* C5: the formats list shows exactly the formats with video and audio, in
\* their original order, cut to the first ListLimit of them, and the count
\* is the number of such formats in the whole list.
C5_PresentableList ==
    (shown # NotComputed) =>
        /\ Len(shown.items) =
              (IF Cardinality(Combined) < ListLimit THEN Cardinality(Combined)
               ELSE ListLimit)
        /\ \A k \in 1..Len(shown.items) : shown.items[k] = NthCombined(k)
        /\ total.n = Cardinality(Combined)

\* 15 formats with video and audio: the first 10 are shown, the count is 15.
C5_Witness ==
    /\ shown # NotComputed
    /\ Len(formats) = 15
    /\ Cardinality(Combined) = 15
    /\ Len(shown.items) = ListLimit
    /\ total.n = 15

----------------------------------------------------------------------------
(* Properties of the derived fields, checked under SpecFields. *)

\* The part of the MIME type before its first ";".
BeforeSemicolon(t) == SubSeq(t, 1, FirstIn(t, {";"}, 1) - 1)

\* C11 as stated: container is the text of mimeType after the "/" and
\* before any ";", and "unknown" when mimeType is absent or has no such
\* text.
C11_ContainerIsTextAfterSlash ==
    (container # NotComputed) =>
        LET type == BeforeSemicolon(mimeType.text)
            slash == FirstIn(type, {"/"}, 1)
            subtype == SubSeq(type, slash + 1, Len(type))
        IN  container.text =
                IF mimeType.present /\ subtype # <<>> THEN subtype ELSE Unknown

\* C11 amended: container is, of the part of mimeType before its first ";",
\* the text between the first "/" and the next "/" (or the end of that
\* part), and "unknown" when mimeType is absent or that text is empty or
\* missing.
C11_ContainerIsSecondPiece ==
    (container # NotComputed) =>
        LET type == BeforeSemicolon(mimeType.text)
            slash == FirstIn(type, {"/"}, 1)
            next == FirstIn(type, {"/"}, slash + 1)
            subtype == SubSeq(type, slash + 1, next - 1)
        IN  container.text =
                IF mimeType.present /\ subtype # <<>> THEN subtype ELSE Unknown

C11_Witness ==
    /\ mimeType = [present |-> TRUE, text |-> <<"v", "i", "d", "e", "o", "/", "m", "p", "4", ";", " ", "c", "o", "d", "e", "c", "s", "=", "\"", "a", "v", "c", "1", "\"">>]
    /\ container = Text(<<"m", "p", "4">>)

C11_WitnessAbsent ==
    /\ mimeType = NoMimeType
    /\ container = Text(Unknown)

IsDecimal(str) == str # <<>> /\ \A i \in 1..Len(str) : str[i] \in Digit

\* C12: for a byte count n given in decimal, formatBytes returns "0 Bytes"
\* when n = 0 and otherwise n / 1024^i rounded to two decimals and one of
\* the units Bytes, KB, MB, GB, i being the largest power with 1024^i <= n.
C12_HumanSizeOfByteCount ==
    (humanSize # NotComputed /\ IsDecimal(contentLength)) =>
        LET n == DecimalValue(contentLength, <<>>)
        IN  IF n = <<>> THEN humanSize.text = <<"0", " ", "B", "y", "t", "e", "s">>
            ELSE \E i \in 0..(Len(sizes) - 1) :
                    /\ Len(n) = i + 1
                    /\ humanSize.text =
                          HundredthsText(Hundredths(n, i)) \o <<" ">> \o sizes[i + 1]

\* An optional minus sign and at least one decimal digit.
IsDecimalInteger(str) ==
    \/ IsDecimal(str)
    \/ str # <<>> /\ str[1] = "-" /\ IsDecimal(Tail(str))

\* C13: for every input that is not a decimal integer formatBytes returns
\* the input unchanged.
C13_NonNumericUnchanged ==
    (humanSize # NotComputed /\ ~IsDecimalInteger(contentLength)) =>
        humanSize.text = contentLength

----------------------------------------------------------------------------
(* Properties of the cut of the formats list, checked under SpecLimit. *)

----------------------------------------------------------------------------
(* The frame of the selector, checked under SpecSelector. *)

----------------------------------------------------------------------------
(* Further properties of the resolver, checked under SpecResolver. *)

\* C19: for an input that parses as a URL of host youtu.be, extractVideoId
\* returns the first path segment only.
C19_ShortLinkFirstSegment ==
    LET urlObj == URLParse(url)
        path == urlObj.pathname
        segment == SubSeq(path, 2, FirstIn(path, {"/"}, 2) - 1)
    IN  (Called /\ urlObj.ok /\ urlObj.hostname = YoutuBe)
            => result = Returned(segment)

\* C20: when the input parses as a URL and no structured rule returns, the
\* outcome is the first capture group of the first of the four patterns
\* that matches the raw string, and InvalidReference when none matches.
C20_FallThroughToPatterns ==
    LET urlObj == URLParse(url)
        v == SearchParamsGet(urlObj.query, <<"v">>)
        watch == /\ Includes(urlObj.hostname, YoutubeCom)
                 /\ urlObj.pathname = WatchPath
                 /\ v.present /\ v.value # <<>>
        M == {i \in 1..Len(patterns) : StringMatch(url, patterns[i]).ok}
    IN  (Called /\ urlObj.ok /\ urlObj.hostname # YoutuBe /\ ~watch) =>
            result = IF M = {} THEN InvalidReference
                     ELSE Returned(StringMatch(url, patterns[Min(M)]).cap)

\* A youtube.com host with a path other than /watch, matched by a pattern.
C20_Witness ==
    /\ url = <<"h", "t", "t", "p", "s", ":", "/", "/", "w", "w", "w", ".", "y", "o", "u", "t", "u", "b", "e", ".", "c", "o", "m", "/", "e", "m", "b", "e", "d", "/">> \o <<"d", "Q", "w", "4", "w", "9", "W", "g", "X", "c", "Q">>
                \o <<"&", "n", "e", "x", "t", "=", "h", "t", "t", "p", "s", ":", "/", "/", "y", "o", "u", "t", "u", ".", "b", "e", "/", "a", "b", "c">>
    /\ result = Returned(<<"a", "b", "c">>)

\* The first pattern wins over the second.
C20_WitnessOrder ==
    /\ url = <<"h", "t", "t", "p", "s", ":", "/", "/", "e", "x", "a", "m", "p", "l", "e", ".", "c", "o", "m", "/", "r", "/", "w", "w", "w", ".", "y", "o", "u", "t", "u", "b", "e", ".", "c", "o", "m", "/", "w", "a", "t", "c", "h", "?", "v", "=">> \o <<"d", "Q", "w", "4", "w", "9", "W", "g", "X", "c", "Q">>
                \o <<"&", "n", "e", "x", "t", "=", "h", "t", "t", "p", "s", ":", "/", "/", "y", "o", "u", "t", "u", ".", "b", "e", "/", "a", "b", "c">>
    /\ result = Returned(<<"d", "Q", "w", "4", "w", "9", "W", "g", "X", "c", "Q">>)

----------------------------------------------------------------------------
(* Properties of the info handler, checked under SpecWorker. *)

ResponseFields ==
    {"title", "author", "lengthSeconds", "viewCount", "thumbnail",
     "description", "formats"}

\* C14: whenever the provider gave its formats, the handler answers 200
\* with one record for every format of the provider, in order, and a
\* record with missing fields carries hasVideo false, hasAudio false,
\* contentLength "0" and container "unknown".
C14_MalformedRecordAbsorbed ==
    (pc = "done" /\ info # NoInfo) =>
        /\ response.status = 200
        /\ Len(response.body.formats) = Len(RawList(info))
        /\ \A k \in 1..Len(RawList(info)) :
            LET f == RawList(info)[k]
                out == response.body.formats[k]
            IN  /\ out.itag = f.itag
                /\ ~f.has_video.present => out.hasVideo = FALSE
                /\ ~f.has_audio.present => out.hasAudio = FALSE
                /\ ~f.content_length.present => out.contentLength = <<"0">>
                /\ ~f.mime_type.present => out.container = Unknown

\* C17: a successful response of POST /api/video/info has the field
\* videoId, equal to the identifier resolved from the request's url, next
\* to title, author, lengthSeconds, viewCount, thumbnail, description and
\* formats.
C17_ResponseCarriesVideoId ==
    (pc = "done" /\ request.endpoint = "info" /\ response.status = 200) =>
        /\ ResponseFields \subseteq DOMAIN response.body
        /\ "videoId" \in DOMAIN response.body
        /\ response.body.videoId = handlerVideoId

----------------------------------------------------------------------------
(* Properties of both handlers, checked under SpecWorker. *)

\* the request's body has a url that is not empty
HasUrl == request.json /\ request.url.present /\ Truthy(request.url.text)

\* C21: the provider is called only after the request's url was found not
\* empty and extractVideoId returned; a request without url is answered
\* 400 "URL is required", a request whose url does not resolve is answered
\* with an error carrying the resolver's message, and in both cases no
\* call of the provider is made and the response is not a success.
C21_ProviderAfterResolution ==
    /\ calls # <<>> =>
        /\ HasUrl
        /\ extractVideoId(request.url.text) = Returned(handlerVideoId)
    /\ (pc = "done" /\ request.json /\ ~HasUrl) =>
        /\ response = Json([error |-> UrlRequired], 400)
        /\ calls = <<>>
    /\ (pc = "done" /\ HasUrl
            /\ extractVideoId(request.url.text) = InvalidReference) =>
        /\ response.status # 200
        /\ response.body = [error |-> InvalidMessage]
        /\ calls = <<>>

\* A url that does not resolve was answered.
C21_Witness ==
    /\ pc = "done"
    /\ request.endpoint = "download"
    /\ request.url = Present(<<"a", "b", "c">>)
    /\ response = Caught(InvalidMessage)
    /\ calls = <<>>

\* A url that resolves reached the provider.
C21_WitnessProvider ==
    /\ pc = "done"
    /\ request.url = Present(<<"d", "Q", "w", "4", "w", "9", "W", "g", "X", "c", "Q">>)
    /\ calls = <<"Innertube.create", "getInfo">>
    /\ response.status = 200

----------------------------------------------------------------------------
(* Properties of the React App, checked under SpecApp and SpecAppFair. *)

\* C22: whenever loading is true it is false again later, once the
\* request settles: with an OK response, a response that is not OK, or a
\* throw of fetch or of the parsing.
C22_LoadingEnds == loading ~> ~loading

\* A request was sent and its fetch threw.
C22_Witness ==
    /\ ~loading
    /\ inFlight = <<>>
    /\ error = "Failed to fetch"
    /\ videoInfo = NoVideoInfo

\* C23 as stated: error is not empty and videoInfo is not null never at
\* the same time.
C23_ErrorExcludesVideoInfo == ~(error # "" /\ videoInfo # NoVideoInfo)

\* C23 amended: while a request of handleFetchInfo is in flight error is
\* empty and videoInfo is null, and when it settles exactly one of the two
\* is set.
C23_FetchInfoSetsOne ==
    /\ [](\A i \in 1..Len(inFlight) :
            inFlight[i].kind = "info" => error = "" /\ videoInfo = NoVideoInfo)
    /\ [][(InfoOk \/ InfoNotOk \/ InfoThrows)
            => ((error' # "") # (videoInfo' # NoVideoInfo))]_vars

\* A second request of handleFetchInfo, sent while a videoInfo was shown,
\* was answered with an error.
C23_Witness ==
    /\ ~loading
    /\ appUrl = <<"a", "a">>
    /\ error = FetchFailed
    /\ videoInfo = NoVideoInfo

\* Enter was pressed on a blank input while a videoInfo was shown.
C23_WitnessBoth ==
    /\ error = EnterUrl
    /\ videoInfo # NoVideoInfo

\* C25: at most one request is in flight, loading is true exactly while
\* it is, a request starts only while loading is false, and a videoInfo
\* that arrives is the answer for the url of the input.
C25_OneRequestInFlight ==
    /\ [](Len(inFlight) <= 1 /\ (loading <=> inFlight # <<>>))
    /\ [][Len(inFlight') > Len(inFlight) => ~loading]_vars
    /\ [][(videoInfo' # videoInfo /\ videoInfo' # NoVideoInfo)
            => videoInfo'.url = appUrl]_vars

\* A download is in flight while the videoInfo of an earlier request is
\* shown.
C25_Witness ==
    /\ loading
    /\ Len(inFlight) = 1
    /\ inFlight[1] = Sent("download", <<"a">>)
    /\ videoInfo = VideoInfoFor(<<"a">>)

----------------------------------------------------------------------------
(* Properties of the cached instance, checked under SpecCache. *)

\* C24: Innertube.create is called at most once, and all calls of
\* getInnertube that returned gave the same instance.
C24_CreatedOnce ==
    /\ created <= 1
    /\ \A r1, r2 \in 1..MaxRequests :
        (stage[r1] = "returned" /\ stage[r2] = "returned")
            => instance[r1] = instance[r2]

====
